---- MODULE Spec2Model ----
(***************************************************************************)
(* SHOPSPHERE: orders, payments and product stock.                         *)
(*                                                                         *)
(* The document store holds Products (stock counters), Orders and          *)
(* Payments.  Every HTTP request is served by an async handler; a handler  *)
(* is suspended at each awaited store operation or outbound call, and      *)
(* other requests may run in between.  A request in flight occupies a      *)
(* slot; its position (pc) and the documents it loaded are the slot's      *)
(* local state.  Each action below is one run of a handler from one        *)
(* suspension point to the next.                                           *)
(***************************************************************************)
EXTENDS Integers, Sequences, FiniteSets, TLC

(* ------------------------------ bounds -------------------------------- *)
\* requests served in one behaviour when requests run one at a time
MaxRequests == 5
\* requests served in one behaviour when two requests may overlap
MaxConcRequests == 4
\* orders / payments the store may hold
MaxOrders == 1
MaxPayments == 1
\* requests served / orders held when only ordering and checkout are studied
MaxShopRequests == 4
MaxShopOrders == 2
\* requests served in the runs of one order brought to payment
MaxPaidRequests == 5
\* characters that follow the opening of a reference
MaxRefLen == 2
\* delivery requests served in a run
MaxDeliveryRequests == 6

(* ------------------------------ domains ------------------------------- *)
Slots == {"r1", "r2"}

Products == {"P1", "P2"}
\* a product id that is a valid ObjectId but names no stored product
MissingProduct == "PX"
InitStock == [p \in Products |-> IF p = "P1" THEN 10 ELSE 4]

\* request bodies' orderItems
LineA == [product |-> "P1", quantity |-> 3]
LineB == [product |-> "P2", quantity |-> 3]
LineX == [product |-> MissingProduct, quantity |-> 1]
LineC == [product |-> "P2", quantity |-> 2]
ItemLists == { <<LineA>>, <<LineA, LineB>>, <<LineA, LineX>>, <<>> }

\* the owner of every order, another customer, an administrator
Owner == "u1"
Callers == {"u1", "u2", "adm"}
Role(u) == IF u = "adm" THEN "admin" ELSE "user"

\* orderSchema.orderStatus enum
OrderStatuses ==
    {"Processing", "Shipped", "In Transit", "Out for Delivery", "Delivered", "Cancelled"}
\* what a client may send as req.body.orderStatus: an enum value, nothing,
\* or a string outside the enum ("In Transit" and "Out for Delivery" are
\* handled by every handler exactly as "Shipped" is)
StatusInputs == {"Processing", "Shipped", "Delivered", "Cancelled", "none", "Bogus"}

\* Payment.metadata: which annotations it carries
NoMeta == [init |-> FALSE, verified |-> FALSE, webhook |-> FALSE,
           failure |-> "none", errors |-> 0]

NoPay == [status |-> "none", order |-> 0, meta |-> NoMeta, auth |-> FALSE]

\* statuses the processor reports for a transaction; the first three are not final
ProcOpen == {"abandoned", "pending", "ongoing"}
ProcStatuses == ProcOpen \cup {"success", "failed"}

\* webhook bodies as the handler sees them (req.body, the parsed JSON): the
\* event name and the reference it carries (0: a reference no Payment has)
WebhookEvents == {"charge.success", "transfer.success"}
WebhookSecret == "whsec"
\* HMAC-SHA512 of JSON.stringify(body) under a key: equal digests only for
\* equal key and body
Hmac(key, body) == <<key, body>>

NoBody == [event |-> "none", ref |-> 0]

\* no product.save() call yet, for any product
NoWrites == [p \in Products |-> 0]

\* the arguments of an initializeTransaction call (keySet: whether
\* PAYSTACK_SECRET_KEY is set; amount: <<>> when none is given) and the
\* number of axios.post calls it has made
NoArgs == [keySet |-> TRUE, email |-> "", amount |-> <<>>, callbackUrl |-> "", posts |-> 0]

\* a slot with no request; the fields are the handler's locals: the request's
\* inputs (caller, oid, pid, input, wellFormed, body, signature,
\* items), the loop index, the documents loaded (lstock, lstatus, lpay),
\* the status assigned to the loaded order, the processor's answer, the
\* updates of a Promise.all still to reach the store, and the number of
\* product.save() calls made per product; stock0 records the stock found when the
\* request arrived
Idle == [op |-> "idle", pc |-> "idle", caller |-> "none", oid |-> 0, pid |-> 0,
         input |-> "none", wellFormed |-> TRUE,
         body |-> NoBody, signature |-> <<>>,
         items |-> <<>>, idx |-> 0, lstock |-> 0, lstatus |-> "none",
         newStatus |-> "none", lpay |-> NoPay, out |-> "none", todo |-> {},
         writes |-> NoWrites, stock0 |-> InitStock, args |-> NoArgs]

NoResp == [op |-> "none", code |-> 0, tag |-> "none"]

\* no verifyTransaction call under study
VtIdle == [pc |-> "idle", attempt |-> 0, callers |-> <<>>, queries |-> 0,
           log |-> <<>>, delays |-> <<>>, error |-> "none", result |-> "none"]

\* no reference under study; references are sequences of characters
RtIdle == [pc |-> "idle", assigned |-> <<>>, stored |-> <<>>, sent |-> <<>>, again |-> <<>>]

\* no Delivery document; updates counts trackingUpdates
NoDelivery == [status |-> "none", courier |-> "none", updates |-> 0]

VARIABLES
    stock,        \* Product.stock of every product
    orders,       \* the Order collection, in creation order
    payments,     \* the Payment collection, in creation order
    proc,         \* the processor's own status of each payment's transaction
    req,          \* the requests in flight, by slot
    lastResp,     \* the response sent by the latest step (NoResp: none)
    decs,         \* per order and product: product.save() calls the Order
                  \* pre-save hook has made for that order
    payDecs,      \* per payment and product: product.save() calls the Order
                  \* pre-save hook has made while reconciling that payment
    alerts,       \* sendManagerAlert calls made so far
    left,         \* requests that may still be started
    concurrent,   \* whether two requests may be in flight together
    orderCap,     \* how many orders the store may hold
    cart,         \* the items of the owner's Cart document
    vt,           \* a verifyTransaction call studied on its own
    rt,           \* a transaction reference followed from the processor to
                  \* the store and back
    delivery      \* the Delivery document of the order (NoDelivery: none yet)

vars == <<stock, orders, payments, proc, req, lastResp, decs, payDecs, alerts,
          left, concurrent, orderCap, cart, vt, rt, delivery>>

dbvars == <<stock, orders, payments>>

OrderIds == 1..Len(orders)
PaymentIds == 1..Len(payments)

(* ------------------------- request scheduling ------------------------- *)
\* a slot accepts a new request; "r2" is only used while "r1" is busy
CanStart(r) ==
    /\ req[r].pc = "idle"
    /\ left > 0
    /\ (r = "r2" => req["r1"].pc # "idle")
    /\ (concurrent \/ \A s \in Slots : req[s].pc = "idle")

Begin(r, rec) ==
    /\ req' = [req EXCEPT ![r] = rec]
    /\ left' = left - 1

\* res.status(code).json(...) and return
Respond(r, resp) ==
    /\ req' = [req EXCEPT ![r] = Idle]
    /\ lastResp' = resp

\* a request answered inside the step that received it
Answer(r, resp) ==
    /\ req' = [req EXCEPT ![r] = Idle]
    /\ left' = left - 1
    /\ lastResp' = resp

\* a request arrives and its handler runs to its first await
Receive(r, rec) ==
    /\ CanStart(r)
    /\ Begin(r, rec)
    /\ lastResp' = NoResp
    /\ UNCHANGED <<stock, orders, payments, proc, decs, payDecs, alerts, concurrent, orderCap, cart, vt, rt, delivery>>

\* the handler goes on to its next await
Goto(r, rec) ==
    /\ req' = [req EXCEPT ![r] = rec]
    /\ lastResp' = NoResp

Resp(o, c, t) == [op |-> o, code |-> c, tag |-> t]

(* ----------------------- Order pre-save hook -------------------------- *)
\* orderSchema.pre('save'): the condition under which stock is decremented
HookDecrements(modified, status) == modified /\ status = "Processing"

\* the stock value product.save() writes: the loaded copy's stock minus
\* the line's quantity
HookNewStock(loaded, quantity) == loaded - quantity

\* the handlers of the legacy payment controller
LegacyOps == {"legacyVerify", "legacyWebhook"}

\* the items of the document being saved by request r
SavedItems(r) ==
    IF req[r].op \in {"createOrder", "checkout"}
    THEN req[r].items ELSE orders[req[r].oid].items

\* after the hook: the order document itself is written
AfterHook(r) == [req[r] EXCEPT !.pc = "order_save", !.idx = 0]

\* hook loop, `const product = await findById(item.product)`
HookRead(r) ==
    /\ req[r].pc = "hook_read"
    /\ LET items == SavedItems(r)
           i == req[r].idx
       IN IF i > Len(items)
          THEN req' = [req EXCEPT ![r] = AfterHook(r)]
          ELSE IF items[i].product \in Products
               THEN req' = [req EXCEPT ![r] = [req[r] EXCEPT
                               !.pc = "hook_write",
                               !.lstock = stock[items[i].product]]]
               ELSE req' = [req EXCEPT ![r] = [req[r] EXCEPT !.idx = i + 1]]
    /\ lastResp' = NoResp
    /\ UNCHANGED <<stock, orders, payments, proc, decs, payDecs, alerts, left, concurrent, orderCap, cart, vt, rt, delivery>>

\* hook loop, `product.stock -= item.quantity; await product.save()`
HookWrite(r) ==
    /\ req[r].pc = "hook_write"
    /\ LET items == SavedItems(r)
           i == req[r].idx
           p == items[i].product
       IN /\ stock' = [stock EXCEPT ![p] = HookNewStock(req[r].lstock, items[i].quantity)]
          /\ req' = [req EXCEPT ![r] = [req[r] EXCEPT !.pc = "hook_read", !.idx = i + 1,
                                                       !.writes[p] = @ + 1]]
          \* an order being created is counted when it is inserted
          /\ decs' = IF req[r].op \in {"createOrder", "checkout"}
                     THEN decs
                     ELSE [decs EXCEPT ![req[r].oid][p] = @ + 1]
          /\ payDecs' = IF req[r].op \in LegacyOps
                        THEN [payDecs EXCEPT ![req[r].pid][p] = @ + 1]
                        ELSE payDecs
    /\ lastResp' = NoResp
    /\ UNCHANGED <<orders, payments, proc, alerts, left, concurrent, orderCap, cart, vt, rt, delivery>>

(* --------------------------- order.js --------------------------------- *)
NewOrder(items) ==
    [user |-> Owner, items |-> items, status |-> "Processing",
     pay |-> [status |-> "pending", ref |-> 0]]

\* requests in flight that will insert an order
Creating == Cardinality({s \in Slots : req[s].op \in {"createOrder", "checkout"}})

\* a createOrder that never finds the stock too low
NeverInsufficient(available, quantity) == FALSE

\* createOrder: `product.stock < item.quantity`
Insufficient(available, quantity) == available < quantity

\* createOrder, up to the first awaited Products.findById
CreateOrder(r, items, complete) ==
    /\ CanStart(r)
    /\ Len(orders) + Creating < orderCap
    /\ IF ~complete
       THEN /\ Answer(r, Resp("createOrder", 400, "missing field"))
       ELSE IF items = <<>>
       THEN /\ Answer(r, Resp("createOrder", 400, "empty items"))
       ELSE /\ Begin(r, [Idle EXCEPT !.op = "createOrder", !.pc = "co_validate",
                                     !.caller = Owner, !.items = items, !.idx = 1,
                                     !.stock0 = stock])
            /\ lastResp' = NoResp
    /\ UNCHANGED <<stock, orders, payments, proc, decs, payDecs, alerts, concurrent, orderCap, cart, vt, rt, delivery>>

\* createOrder, "Validate products and stock": one item's findById and checks
CreateOrderValidate(r) ==
    /\ req[r].pc = "co_validate"
    /\ LET item == req[r].items[req[r].idx]
       IN IF item.product \notin Products
          THEN Respond(r, Resp("createOrder", 404, "product not found"))
          ELSE IF Insufficient(stock[item.product], item.quantity)
          THEN Respond(r, Resp("createOrder", 400, "insufficient stock"))
          ELSE /\ req' = [req EXCEPT ![r] =
                      IF req[r].idx < Len(req[r].items)
                      THEN [req[r] EXCEPT !.idx = @ + 1]
                      \* Order.create: orderStatus is set, so the hook decrements
                      ELSE [req[r] EXCEPT
                              !.pc = IF HookDecrements(TRUE, "Processing")
                                     THEN "hook_read" ELSE "order_save",
                              !.idx = 1]]
               /\ lastResp' = NoResp
    /\ UNCHANGED <<stock, orders, payments, proc, decs, payDecs, alerts, left, concurrent, orderCap, cart, vt, rt, delivery>>

\* Order.create: the document is inserted once the pre-save hook has run
CreateOrderInsert(r) ==
    /\ req[r].pc = "order_save"
    /\ req[r].op = "createOrder"
    /\ orders' = Append(orders, NewOrder(req[r].items))
    /\ decs' = Append(decs, req[r].writes)
    /\ Respond(r, Resp("createOrder", 201, "created"))
    /\ UNCHANGED <<stock, payments, proc, payDecs, alerts, left, concurrent, orderCap, cart, vt, rt, delivery>>

\* `order.orderStatus = orderStatus || order.orderStatus`
AssignedStatus(input, loaded) == IF input = "none" THEN loaded ELSE input

\* updateOrderStatus is called; it awaits Order.findById
UpdateOrderStatus(r, oid, caller, input) ==
    Receive(r, [Idle EXCEPT !.op = "updateOrderStatus", !.pc = "uos_find",
                            !.oid = oid, !.caller = caller, !.input = input])

\* updateOrderStatus from the loaded order to order.save(): the 404 and 403
\* answers, the assignment, and save()'s validation of orderStatus
UpdateOrderStatusLoaded(r) ==
    /\ req[r].pc = "uos_find"
    /\ IF req[r].oid \notin OrderIds
       THEN Respond(r, Resp("updateOrderStatus", 404, "order not found"))
       ELSE IF Role(req[r].caller) # "admin"
       THEN Respond(r, Resp("updateOrderStatus", 403, "unauthorized"))
       ELSE LET loaded == orders[req[r].oid].status
                new == AssignedStatus(req[r].input, loaded)
            IN IF new \notin OrderStatuses
               THEN Respond(r, Resp("updateOrderStatus", 500, "validation failed"))
               ELSE Goto(r, [req[r] EXCEPT
                            !.lstatus = loaded, !.newStatus = new,
                            !.pc = IF HookDecrements(new # loaded, new)
                                   THEN "hook_read" ELSE "order_save",
                            !.idx = 1])
    /\ UNCHANGED <<stock, orders, payments, proc, decs, payDecs, alerts, left, concurrent, orderCap, cart, vt, rt, delivery>>

\* a cancelOrder that would also refuse an order already cancelled
CancelRefusedOnceFinal(loaded) == loaded \in {"Delivered", "Cancelled"}

\* cancelOrder: whether the loaded order is refused
CancelRefused(loaded) == loaded = "Delivered"

\* cancelOrder is called; it awaits Order.findById
CancelOrder(r, oid, caller) ==
    Receive(r, [Idle EXCEPT !.op = "cancelOrder", !.pc = "cancel_find",
                            !.oid = oid, !.caller = caller])

\* cancelOrder from the loaded order to order.save(): the 404, 403 and 400
\* answers and `order.orderStatus = 'Cancelled'`
CancelOrderLoaded(r) ==
    /\ req[r].pc = "cancel_find"
    /\ IF req[r].oid \notin OrderIds
       THEN Respond(r, Resp("cancelOrder", 404, "order not found"))
       ELSE IF orders[req[r].oid].user # req[r].caller /\ Role(req[r].caller) # "admin"
       THEN Respond(r, Resp("cancelOrder", 403, "unauthorized"))
       ELSE IF CancelRefused(orders[req[r].oid].status)
       THEN Respond(r, Resp("cancelOrder", 400, "cannot cancel delivered order"))
       ELSE Goto(r, [req[r] EXCEPT
                    !.lstatus = orders[req[r].oid].status, !.newStatus = "Cancelled",
                    !.pc = IF HookDecrements("Cancelled" # orders[req[r].oid].status,
                                             "Cancelled")
                           THEN "hook_read" ELSE "order_save",
                    !.idx = 1])
    /\ UNCHANGED <<stock, orders, payments, proc, decs, payDecs, alerts, left, concurrent, orderCap, cart, vt, rt, delivery>>

\* order.save() of a loaded order: the modified path orderStatus is $set
OrderSave(r) ==
    /\ req[r].pc = "order_save"
    /\ req[r].op \in {"updateOrderStatus", "cancelOrder"}
    /\ orders' = IF req[r].newStatus # req[r].lstatus
                 THEN [orders EXCEPT ![req[r].oid].status = req[r].newStatus]
                 ELSE orders
    /\ Respond(r, Resp(req[r].op, 200, "saved"))
    /\ UNCHANGED <<stock, payments, proc, decs, payDecs, alerts, left, concurrent, orderCap, cart, vt, rt, delivery>>

(* ----------------------------- cart.js -------------------------------- *)
\* the position in the cart of the item for product p (0: none)
CartIndex(p) ==
    IF \E i \in 1..Len(cart) : cart[i].product = p
    THEN CHOOSE i \in 1..Len(cart) : cart[i].product = p
    ELSE 0

\* addToCart, taken as one step: the product and stock checks, the merge
\* with an item already in the cart, cart.save()
AddToCart(r, line) ==
    /\ CanStart(r)
    /\ LET p == line.product
           i == CartIndex(p)
       IN IF p \notin Products
          THEN /\ Answer(r, Resp("addToCart", 404, "product not found"))
               /\ UNCHANGED cart
          ELSE IF stock[p] < line.quantity
          THEN /\ Answer(r, Resp("addToCart", 400, "insufficient stock"))
               /\ UNCHANGED cart
          ELSE IF i = 0
          THEN /\ Answer(r, Resp("addToCart", 200, "added"))
               /\ cart' = Append(cart, line)
          ELSE IF stock[p] < cart[i].quantity + line.quantity
          THEN /\ Answer(r, Resp("addToCart", 400, "insufficient stock"))
               /\ UNCHANGED cart
          ELSE /\ Answer(r, Resp("addToCart", 200, "added"))
               /\ cart' = [cart EXCEPT ![i].quantity = @ + line.quantity]
    /\ UNCHANGED <<stock, orders, payments, proc, decs, payDecs, alerts, concurrent,
                   orderCap, vt, rt, delivery>>

\* checkout is called; it awaits Cart.findOne(...).populate('items.product')
Checkout(r, shippingOk) ==
    /\ Len(orders) + Creating < orderCap
    /\ Receive(r, [Idle EXCEPT !.op = "checkout", !.pc = "ck_load", !.caller = Owner,
                               !.wellFormed = shippingOk])

\* checkout: whether the map over the populated cart throws for an item
CartLineRejected(populatedStock, line) ==
    line.product \notin Products \/ populatedStock[line.product] < line.quantity

\* checkout from the populated cart to order.save(): the empty-cart and
\* shipping answers and the stock guard over the populated products
CheckoutLoaded(r) ==
    /\ req[r].pc = "ck_load"
    /\ IF cart = <<>>
       THEN Respond(r, Resp("checkout", 400, "cart is empty"))
       ELSE IF ~req[r].wellFormed
       THEN Respond(r, Resp("checkout", 400, "missing shipping field"))
       ELSE IF \E i \in 1..Len(cart) : CartLineRejected(stock, cart[i])
       THEN Respond(r, Resp("checkout", 500, "checkout failed"))
       ELSE Goto(r, [req[r] EXCEPT
                    !.items = cart, !.stock0 = stock, !.idx = 1,
                    !.pc = IF HookDecrements(TRUE, "Processing")
                           THEN "hook_read" ELSE "order_save"])
    /\ UNCHANGED <<stock, orders, payments, proc, decs, payDecs, alerts, left, concurrent,
                   orderCap, cart, vt, rt, delivery>>

\* checkout: order.save() inserts the order once the pre-save hook has run
CheckoutInsert(r) ==
    /\ req[r].pc = "order_save"
    /\ req[r].op = "checkout"
    /\ orders' = Append(orders, NewOrder(req[r].items))
    /\ decs' = Append(decs, req[r].writes)
    /\ Goto(r, [req[r] EXCEPT !.pc = "ck_inc", !.oid = Len(orders) + 1, !.idx = 1])
    /\ UNCHANGED <<stock, payments, proc, payDecs, alerts, left, concurrent, orderCap,
                   cart, vt, rt, delivery>>

\* checkout, "Update product stock": one item's
\* findByIdAndUpdate({ $inc: { stock: -quantity } }), applied to the stored value
CheckoutInc(r) ==
    /\ req[r].pc = "ck_inc"
    /\ LET i == req[r].idx
           line == req[r].items[i]
       IN IF i > Len(req[r].items)
          THEN /\ Goto(r, [req[r] EXCEPT !.pc = "ck_clear", !.idx = 0])
               /\ UNCHANGED <<stock, decs>>
          ELSE /\ stock' = [stock EXCEPT ![line.product] = @ - line.quantity]
               /\ decs' = [decs EXCEPT ![req[r].oid][line.product] = @ + 1]
               /\ Goto(r, [req[r] EXCEPT !.idx = i + 1])
    /\ UNCHANGED <<orders, payments, proc, payDecs, alerts, left, concurrent, orderCap,
                   cart, vt, rt, delivery>>

\* checkout, "Clear cart", then the 200 answer
CheckoutClear(r) ==
    /\ req[r].pc = "ck_clear"
    /\ cart' = <<>>
    /\ Respond(r, Resp("checkout", 200, "checked out"))
    /\ UNCHANGED <<stock, orders, payments, proc, decs, payDecs, alerts, left, concurrent,
                   orderCap, vt, rt, delivery>>

(* --------------------------- payment.js ------------------------------- *)
\* Payment.create in createPayment
NewPayment(oid) ==
    [status |-> "pending", order |-> oid, meta |-> [NoMeta EXCEPT !.init = TRUE],
     auth |-> FALSE]

\* createPayment up to the availability loop: Order.findById, the 404,
\* 403 and "Order cancelled" answers
CreatePayment(r, oid, caller) ==
    /\ CanStart(r)
    /\ Len(payments) + Cardinality({s \in Slots : req[s].op = "createPayment"}) < MaxPayments
    /\ IF oid \notin OrderIds
       THEN Answer(r, Resp("createPayment", 404, "order not found"))
       ELSE IF orders[oid].user # caller /\ Role(caller) # "admin"
       THEN Answer(r, Resp("createPayment", 403, "unauthorized"))
       ELSE IF orders[oid].status = "Cancelled"
       THEN Answer(r, Resp("createPayment", 400, "order cancelled"))
       ELSE /\ Begin(r, [Idle EXCEPT !.op = "createPayment", !.pc = "cp_avail",
                                     !.caller = caller, !.oid = oid,
                                     !.items = orders[oid].items, !.idx = 1])
            /\ lastResp' = NoResp
    /\ UNCHANGED <<stock, orders, payments, proc, decs, payDecs, alerts, concurrent, orderCap, cart, vt, rt, delivery>>

\* createPayment, "Check product availability": one item's findById and checks
CreatePaymentAvail(r) ==
    /\ req[r].pc = "cp_avail"
    /\ LET item == req[r].items[req[r].idx]
       IN IF item.product \notin Products
          THEN Respond(r, Resp("createPayment", 400, "product not found"))
          ELSE IF stock[item.product] < item.quantity
          THEN Respond(r, Resp("createPayment", 400, "insufficient stock"))
          ELSE /\ req' = [req EXCEPT ![r] =
                      IF req[r].idx < Len(req[r].items)
                      THEN [req[r] EXCEPT !.idx = @ + 1]
                      ELSE [req[r] EXCEPT !.pc = "cp_init", !.idx = 0]]
               /\ lastResp' = NoResp
    /\ UNCHANGED <<stock, orders, payments, proc, decs, payDecs, alerts, left, concurrent, orderCap, cart, vt, rt, delivery>>

\* createPayment: initializeTransaction answers or throws, then Payment.create
CreatePaymentInit(r, ok) ==
    /\ req[r].pc = "cp_init"
    /\ IF ok
       THEN /\ req' = [req EXCEPT ![r] = [req[r] EXCEPT !.pc = "cp_create"]]
            /\ lastResp' = NoResp
       ELSE Respond(r, Resp("createPayment", 500, "initialization failed"))
    /\ UNCHANGED <<stock, orders, payments, proc, decs, payDecs, alerts, left, concurrent, orderCap, cart, vt, rt, delivery>>

CreatePaymentCreate(r) ==
    /\ req[r].pc = "cp_create"
    /\ payments' = Append(payments, NewPayment(req[r].oid))
    /\ proc' = Append(proc, "abandoned")
    /\ payDecs' = Append(payDecs, NoWrites)
    /\ Respond(r, Resp("createPayment", 200, "initialized"))
    /\ UNCHANGED <<stock, orders, decs, alerts, left, concurrent, orderCap, cart, vt, rt, delivery>>

\* what createPayment may hand to initializeTransaction: req.user.email,
\* order.totalPrice, the callback URL built from APP_URL
Emails == {"", "owner@shop.test"}
Amounts == {<<>>, <<-5>>, <<0>>, <<2500>>}
CallbackUrls == {"", "https://shop.test/api/payments/webhook"}

\* an initializeTransaction that validates nothing
InitializeAcceptsAll(keySet, email, amount, callbackUrl) == FALSE

\* initializeTransaction: the three checks that throw before axios.post
\* (`!amount` holds for a missing amount and for 0)
InitializeRejects(keySet, email, amount, callbackUrl) ==
    \/ ~keySet
    \/ email = "" \/ amount = <<>> \/ amount[1] = 0 \/ amount[1] <= 0
    \/ callbackUrl = ""

\* createPayment awaits initializeTransaction(email, amount, metadata,
\* callbackUrl): the checks, then axios.post is sent
InitializeTransaction(r, keySet, email, amount, callbackUrl) ==
    /\ req[r].pc = "cp_init"
    /\ LET given == [keySet |-> keySet, email |-> email, amount |-> amount,
                     callbackUrl |-> callbackUrl, posts |-> 0]
       IN IF InitializeRejects(keySet, email, amount, callbackUrl)
          THEN Goto(r, [req[r] EXCEPT !.pc = "cp_catch", !.args = given])
          ELSE Goto(r, [req[r] EXCEPT !.pc = "cp_post",
                                      !.args = [given EXCEPT !.posts = 1]])
    /\ UNCHANGED <<stock, orders, payments, proc, decs, payDecs, alerts, left,
                   concurrent, orderCap, cart, vt, rt, delivery>>

\* axios.post answers (`return response.data`) or fails (the catch of
\* initializeTransaction rethrows)
InitializePosted(r, ok) ==
    /\ req[r].pc = "cp_post"
    /\ Goto(r, [req[r] EXCEPT !.pc = IF ok THEN "cp_create" ELSE "cp_catch"])
    /\ UNCHANGED <<stock, orders, payments, proc, decs, payDecs, alerts, left,
                   concurrent, orderCap, cart, vt, rt, delivery>>

\* createPayment catch: 500 with the error's message
CreatePaymentCatch(r) ==
    /\ req[r].pc = "cp_catch"
    /\ Respond(r, Resp("createPayment", 500, "initialization failed"))
    /\ UNCHANGED <<stock, orders, payments, proc, decs, payDecs, alerts, left,
                   concurrent, orderCap, cart, vt, rt, delivery>>

\* the payer completes or gives up the transaction at the processor
ProcessorAdvance(pid, s) ==
    /\ pid \in PaymentIds
    /\ proc[pid] \in ProcOpen
    /\ s # proc[pid]
    /\ proc' = [proc EXCEPT ![pid] = s]
    /\ lastResp' = NoResp
    /\ UNCHANGED <<stock, orders, payments, req, decs, payDecs, alerts,
                   left, concurrent, orderCap, cart, vt, rt, delivery>>

\* a verifyPayment without the cached answer
VerifyNeverCached(localPayment) == FALSE

\* verifyPayment step 3: "Return cached status if already verified"
VerifyCached(localPayment) == localPayment.status = "success"

\* the Payment update of a success outcome: metadata is rebuilt from the given one
PaymentSuccess(payment, meta) ==
    [payment EXCEPT !.status = "success", !.auth = TRUE, !.meta = meta]

\* verifyPayment: `{...localPayment.metadata, verifiedAt, paystackData, ...}`
VerifiedMeta(localPayment) == [localPayment.meta EXCEPT !.verified = TRUE]

\* webhook: `metadata: { paystackWebhook: event.data }`
WebhookMeta == [NoMeta EXCEPT !.webhook = TRUE]

\* the Order update of a success outcome (fields outside the schema are dropped)
OrderPaid(order, pid) ==
    [order EXCEPT !.status = "Processing", !.pay = [status |-> "success", ref |-> pid]]

\* verifyPayment is called: the reference format check, then it awaits
\* Payment.findOne
VerifyPayment(r, pid, wellFormed) ==
    /\ CanStart(r)
    /\ IF ~wellFormed
       THEN Answer(r, Resp("verifyPayment", 400, "invalid reference format"))
       ELSE /\ Begin(r, [Idle EXCEPT !.op = "verifyPayment", !.pc = "vp_find", !.pid = pid,
                                     !.stock0 = stock])
            /\ lastResp' = NoResp
    /\ UNCHANGED <<stock, orders, payments, proc, decs, payDecs, alerts, concurrent, orderCap, cart, vt, rt, delivery>>

\* verifyPayment from the loaded payment to verifyTransaction: the 404
\* answer and the cached answer
VerifyPaymentLoaded(r) ==
    /\ req[r].pc = "vp_find"
    /\ IF req[r].pid \notin PaymentIds
       THEN Respond(r, Resp("verifyPayment", 404, "payment not found"))
       ELSE IF VerifyCached(payments[req[r].pid])
       THEN Respond(r, Resp("verifyPayment", 200, "cached"))
       ELSE Goto(r, [req[r] EXCEPT !.pc = "vp_query",
                                   !.oid = payments[req[r].pid].order,
                                   !.lpay = payments[req[r].pid]])
    /\ UNCHANGED <<stock, orders, payments, proc, decs, payDecs, alerts, left, concurrent, orderCap, cart, vt, rt, delivery>>

\* verifyPayment step 4: verifyTransaction returns the processor's status,
\* or throws (still pending after the retries, or a request error)
VerifyTransaction(r, fails) ==
    /\ req[r].pc = "vp_query"
    /\ LET st == proc[req[r].pid]
       IN req' = [req EXCEPT ![r] =
             IF fails \/ st = "pending"
             THEN [req[r] EXCEPT !.pc = "vp_catch", !.out = "throw"]
             ELSE IF st = "success"
             THEN [req[r] EXCEPT !.pc = "vp_success", !.out = st, !.todo = {"payment", "order"}]
             ELSE [req[r] EXCEPT !.pc = "vp_failed", !.out = st]]
    /\ lastResp' = NoResp
    /\ UNCHANGED <<stock, orders, payments, proc, decs, payDecs, alerts, left, concurrent, orderCap, cart, vt, rt, delivery>>

\* verifyPayment case 'success': Promise.all of Payment.findByIdAndUpdate and
\* Order.findByIdAndUpdate; the two updates reach the store in either order
VerifySuccessWrite(r, w) ==
    /\ req[r].pc = "vp_success"
    /\ w \in req[r].todo
    /\ IF w = "payment"
       THEN /\ payments' = [payments EXCEPT ![req[r].pid] =
                               PaymentSuccess(@, VerifiedMeta(req[r].lpay))]
            /\ UNCHANGED orders
       ELSE /\ orders' = [orders EXCEPT ![req[r].oid] = OrderPaid(@, req[r].pid)]
            /\ UNCHANGED payments
    /\ IF req[r].todo = {w}
       THEN Respond(r, Resp("verifyPayment", 200, "verified"))
       ELSE /\ req' = [req EXCEPT ![r] = [req[r] EXCEPT !.todo = @ \ {w}]]
            /\ lastResp' = NoResp
    /\ UNCHANGED <<stock, proc, decs, payDecs, alerts, left, concurrent, orderCap, cart, vt, rt, delivery>>

\* a verifyPayment that records no failure reason
FailureUnrecorded(out) == "none"

\* the failure reason recorded for a processor status other than success
FailureReason(out) ==
    IF out = "abandoned" THEN "abandoned" ELSE IF out = "failed" THEN "failed" ELSE "unexpected"

\* verifyPayment cases 'abandoned', 'failed' and default
VerifyFailedWrite(r) ==
    /\ req[r].pc = "vp_failed"
    /\ payments' = [payments EXCEPT ![req[r].pid] =
                       [@ EXCEPT !.status = "failed",
                                 !.meta = [req[r].lpay.meta EXCEPT
                                             !.failure = FailureReason(req[r].out)]]]
    /\ Respond(r, Resp("verifyPayment", 400, FailureReason(req[r].out)))
    /\ UNCHANGED <<stock, orders, proc, decs, payDecs, alerts, left, concurrent, orderCap, cart, vt, rt, delivery>>

\* a catch that records the error as a failed payment
ErrorMarksFailed(payment) == [payment EXCEPT !.status = "failed", !.meta.errors = @ + 1]

\* verifyPayment catch: `$set` of metadata.lastVerificationError and
\* lastVerificationAttempt, `$inc` of metadata.verificationAttempts
ErrorAnnotated(payment) == [payment EXCEPT !.meta.errors = @ + 1]

\* verifyPayment catch: Payment.updateOne annotates metadata, then the error answer
VerifyCatch(r) ==
    /\ req[r].pc = "vp_catch"
    /\ payments' = [payments EXCEPT ![req[r].pid] = ErrorAnnotated(@)]
    /\ Respond(r, Resp("verifyPayment", 500, "error"))
    /\ UNCHANGED <<stock, orders, proc, decs, payDecs, alerts, left, concurrent, orderCap, cart, vt, rt, delivery>>

\* a webhook that accepts whatever signature it is sent
SignatureUnchecked(body, signature) == TRUE

\* webhook: the signature check
SignatureValid(body, signature) == signature = Hmac(WebhookSecret, body)

\* a webhook that reconciles on any event
ReconcilesAny(event) == TRUE

\* webhook: `if (event.event === 'charge.success')`
Reconciles(event) == event = "charge.success"

\* webhook: whether the success update is applied to the Payment found
WebhookApplies(payment) == TRUE

\* the signatures a sender may attach to a body: the processor's, one made
\* with another key, one made for another body
Signatures(body) ==
    { Hmac(WebhookSecret, body), Hmac("other", body),
      Hmac(WebhookSecret, [body EXCEPT !.event = "tampered"]) }

\* a correctly signed charge.success exists only for a reference the store
\* has never issued (0) or for a transaction the processor has seen succeed
Deliverable(body, signature) ==
    (signature = Hmac(WebhookSecret, body) /\ body.event = "charge.success"
       /\ body.ref # 0)
    => (body.ref \in PaymentIds /\ proc[body.ref] = "success")

\* a webhook request arrives
Webhook(r, body, signature) ==
    /\ Deliverable(body, signature)
    /\ Receive(r, [Idle EXCEPT !.op = "webhook", !.pc = "wh_check", !.body = body,
                               !.signature = signature, !.stock0 = stock])

\* webhook up to the Order update: the secret check (configured: whether
\* PAYSTACK_WEBHOOK_SECRET is set in the environment the server runs in), the
\* signature check, the event filter and Payment.findOneAndUpdate
WebhookCheck(r, configured) ==
    /\ req[r].pc = "wh_check"
    /\ LET body == req[r].body
       IN IF ~configured
          THEN /\ Respond(r, Resp("webhook", 500, "secret missing"))
               /\ UNCHANGED payments
          ELSE IF ~SignatureValid(body, req[r].signature)
          THEN /\ Respond(r, Resp("webhook", 400, "invalid signature"))
               /\ UNCHANGED payments
          ELSE IF ~Reconciles(body.event)
          THEN /\ Respond(r, Resp("webhook", 200, "ignored"))
               /\ UNCHANGED payments
          ELSE IF body.ref \notin PaymentIds
          THEN /\ Respond(r, Resp("webhook", 200, "no payment"))
               /\ UNCHANGED payments
          ELSE IF ~WebhookApplies(payments[body.ref])
          THEN /\ Respond(r, Resp("webhook", 200, "already applied"))
               /\ UNCHANGED payments
          ELSE /\ payments' = [payments EXCEPT ![body.ref] = PaymentSuccess(@, WebhookMeta)]
               /\ Goto(r, [req[r] EXCEPT !.pc = "wh_order", !.pid = body.ref,
                                         !.oid = payments[body.ref].order,
                                         !.lpay = payments[body.ref]])
    /\ UNCHANGED <<stock, orders, proc, decs, payDecs, alerts, left, concurrent, orderCap, cart, vt, rt, delivery>>

\* webhook: Order.findByIdAndUpdate, then 'Webhook processed'
WebhookOrder(r) ==
    /\ req[r].pc = "wh_order"
    /\ orders' = [orders EXCEPT ![req[r].oid] = OrderPaid(@, req[r].pid)]
    /\ Respond(r, Resp("webhook", 200, "processed"))
    /\ UNCHANGED <<stock, payments, proc, decs, payDecs, alerts, left, concurrent, orderCap, cart, vt, rt, delivery>>

\* webhook: Payment.findOneAndUpdate rejects (the store is unreachable or the
\* write fails); the catch answers 'Webhook failed'
WebhookPaymentFails(r) ==
    /\ req[r].pc = "wh_check"
    /\ SignatureValid(req[r].body, req[r].signature)
    /\ Reconciles(req[r].body.event)
    /\ Respond(r, Resp("webhook", 500, "webhook failed"))
    /\ UNCHANGED <<stock, orders, payments, proc, decs, payDecs, alerts, left,
                   concurrent, orderCap, cart, vt, rt, delivery>>

\* webhook: Order.findByIdAndUpdate rejects after the Payment was updated
WebhookOrderFails(r) ==
    /\ req[r].pc = "wh_order"
    /\ Respond(r, Resp("webhook", 500, "webhook failed"))
    /\ UNCHANGED <<stock, orders, payments, proc, decs, payDecs, alerts, left,
                   concurrent, orderCap, cart, vt, rt, delivery>>

(* ------------------------- verifyTransaction -------------------------- *)
(* One call of verifyTransaction(reference) followed through its own      *)
(* recursion. vt.attempt is the attempt of the frame that runs,           *)
(* vt.callers the frames suspended on `return verifyTransaction(...)`,    *)
(* outermost first, each by the block that holds its call: "try" (the     *)
(* pending branch) or "catch". vt.queries counts axios.get calls, vt.log  *)
(* their outcomes, vt.delays the setTimeout delays waited.                *)

\* `const maxAttempts = 5`
MaxAttempts == 5

\* `const baseDelay = 2000` (milliseconds)
BaseDelay == 2000

\* what one axios.get can come to: a response carrying a transaction status,
\* a response without data or without a status field, an error with
\* response.status 404, any other error (network, timeout, 5xx)
VtOutcomes == ProcStatuses \cup {"malformed", "notFound", "error"}

\* a verifyTransaction that retries at every attempt
AlwaysRetry(attempt) == TRUE

\* `attempt < maxAttempts`
MayRetry(attempt) == attempt < MaxAttempts

\* a catch block that takes no error as final
NothingFatal(error) == FALSE

\* catch: `error.response?.status === 404` or
\* `error.message.includes('Invalid Paystack response')`
Fatal(error) == error \in {"not found", "invalid response"}

\* `return await verifyTransaction(...)`: a rejection of the nested call is
\* thrown where the call stands, so a call inside try reaches the catch
ReturnAwaited(block) == block = "try"

\* `return verifyTransaction(reference, attempt + 1)`: the nested promise is
\* handed over without being awaited, the caller's frame is gone when it
\* rejects and no caller's catch sees the rejection
CaughtByCaller(block) == FALSE

\* the call under study is made; `attempt = 1`
VtCall ==
    /\ vt.pc = "idle"
    /\ vt' = [VtIdle EXCEPT !.pc = "query", !.attempt = 1]
    /\ UNCHANGED <<stock, orders, payments, proc, req, lastResp, decs, payDecs,
                   alerts, left, concurrent, orderCap, cart, rt, delivery>>

\* try block: axios.get comes to outcome o; the format check, the pending
\* branch, `return response.data`
VtQuery(o) ==
    /\ vt.pc = "query"
    /\ LET q == [vt EXCEPT !.queries = @ + 1, !.log = Append(@, o)]
       IN vt' = IF o = "error"
                THEN [q EXCEPT !.pc = "catch", !.error = "request failed"]
                ELSE IF o = "notFound"
                THEN [q EXCEPT !.pc = "catch", !.error = "not found"]
                ELSE IF o = "malformed"
                THEN [q EXCEPT !.pc = "catch", !.error = "invalid response"]
                ELSE IF o = "pending"
                THEN IF MayRetry(vt.attempt)
                     THEN [q EXCEPT !.pc = "wait_try"]
                     ELSE [q EXCEPT !.pc = "catch", !.error = "still pending"]
                ELSE [q EXCEPT !.pc = "returned", !.result = o, !.callers = <<>>]
    /\ UNCHANGED <<stock, orders, payments, proc, req, lastResp, decs, payDecs,
                   alerts, left, concurrent, orderCap, cart, rt, delivery>>

\* catch block: retry or `throw error`
VtCatch ==
    /\ vt.pc = "catch"
    /\ vt' = IF MayRetry(vt.attempt) /\ ~Fatal(vt.error)
             THEN [vt EXCEPT !.pc = "wait_catch"]
             ELSE [vt EXCEPT !.pc = "rejected"]
    /\ UNCHANGED <<stock, orders, payments, proc, req, lastResp, decs, payDecs,
                   alerts, left, concurrent, orderCap, cart, rt, delivery>>

\* `await new Promise(resolve => setTimeout(resolve, baseDelay * attempt))`,
\* then `return verifyTransaction(reference, attempt + 1)`
VtWait ==
    /\ vt.pc \in {"wait_try", "wait_catch"}
    /\ vt' = [vt EXCEPT !.pc = "query",
                        !.delays = Append(@, BaseDelay * vt.attempt),
                        !.callers = Append(@, IF vt.pc = "wait_try" THEN "try" ELSE "catch"),
                        !.attempt = @ + 1,
                        !.error = "none"]
    /\ UNCHANGED <<stock, orders, payments, proc, req, lastResp, decs, payDecs,
                   alerts, left, concurrent, orderCap, cart, rt, delivery>>

\* the promise of the running frame is rejected: the rejection passes to the
\* caller's promise, or to whoever awaits the outermost call
VtReject ==
    /\ vt.pc = "rejected"
    /\ vt' = IF vt.callers = <<>>
             THEN [vt EXCEPT !.pc = "thrown"]
             ELSE LET n == Len(vt.callers)
                      up == [vt EXCEPT !.attempt = @ - 1,
                                       !.callers = SubSeq(@, 1, n - 1)]
                  IN IF CaughtByCaller(vt.callers[n])
                     THEN [up EXCEPT !.pc = "catch"]
                     ELSE up
    /\ UNCHANGED <<stock, orders, payments, proc, req, lastResp, decs, payDecs,
                   alerts, left, concurrent, orderCap, cart, rt, delivery>>

(* ----------------------- transaction references ----------------------- *)
\* 'ref_'
RefPrefix == <<"r", "e", "f", "_">>

\* ref.startsWith(prefix)
StartsWith(ref, prefix) ==
    Len(ref) >= Len(prefix) /\ SubSeq(ref, 1, Len(prefix)) = prefix

\* a normalizeReference that returns its argument
NormalizeNothing(ref) == ref

\* normalizeReference: a missing (empty) reference is returned as it is
NormalizeReference(ref) ==
    IF ref = <<>> THEN ref
    ELSE IF StartsWith(ref, RefPrefix) THEN ref ELSE RefPrefix \o ref

\* a verifyTransaction that sends the reference it is given
PaystackReferenceKept(reference) == reference

\* verifyTransaction: "Remove 'ref_' prefix for Paystack API",
\* `reference.substring(4)`
PaystackReference(reference) ==
    IF StartsWith(reference, RefPrefix)
    THEN SubSeq(reference, Len(RefPrefix) + 1, Len(reference))
    ELSE reference

\* the sequences over alphabet of length at most n
RECURSIVE Words(_, _)
Words(alphabet, n) ==
    IF n = 0 THEN {<<>>}
    ELSE LET shorter == Words(alphabet, n - 1)
         IN shorter \cup {Append(w, c) : w \in shorter, c \in alphabet}

\* what the processor's answer may carry as data.reference: nothing, or a
\* string that opens with none, part, one or two copies of 'ref_'
References ==
    { opening \o rest :
        opening \in {<<>>, <<"r", "e", "f">>, RefPrefix, RefPrefix \o RefPrefix},
        rest \in Words({"a", "7", "_"}, MaxRefLen) }

\* initializeTransaction returns: data.reference
RefAssigned(ref) ==
    /\ rt.pc = "idle"
    /\ rt' = [RtIdle EXCEPT !.pc = "assigned", !.assigned = ref]
    /\ UNCHANGED <<stock, orders, payments, proc, req, lastResp, decs, payDecs,
                   alerts, left, concurrent, orderCap, cart, vt, delivery>>

\* createPayment: `transactionReference = normalizeReference(data.reference)`
RefStored ==
    /\ rt.pc = "assigned"
    /\ rt' = [rt EXCEPT !.pc = "stored", !.stored = NormalizeReference(rt.assigned)]
    /\ UNCHANGED <<stock, orders, payments, proc, req, lastResp, decs, payDecs,
                   alerts, left, concurrent, orderCap, cart, vt, delivery>>

\* verifyTransaction(reference) with the stored reference: the reference put
\* in the URL
RefSent ==
    /\ rt.pc = "stored"
    /\ rt' = [rt EXCEPT !.pc = "sent", !.sent = PaystackReference(rt.stored)]
    /\ UNCHANGED <<stock, orders, payments, proc, req, lastResp, decs, payDecs,
                   alerts, left, concurrent, orderCap, cart, vt, delivery>>

\* webhook: `normalizeReference(event.data.reference)` on a reference that
\* already went through normalizeReference
RefNormalizedAgain ==
    /\ rt.pc = "sent"
    /\ rt' = [rt EXCEPT !.pc = "done", !.again = NormalizeReference(rt.stored)]
    /\ UNCHANGED <<stock, orders, payments, proc, req, lastResp, decs, payDecs,
                   alerts, left, concurrent, orderCap, cart, vt, delivery>>

(* ----------------------------- delivery.js ---------------------------- *)
\* deliverySchema.status enum
DeliveryStatuses ==
    {"pending", "assigned", "picked_up", "in_transit", "delivered", "cancelled"}

Couriers == {"c1", "c2"}

\* updateDeliveryStatus: `validTransitions[delivery.status]?.includes(status)`
ValidTransition(from, to) ==
    \/ from = "assigned" /\ to = "picked_up"
    \/ from = "picked_up" /\ to = "in_transit"
    \/ from = "in_transit" /\ to = "delivered"

\* createDelivery for the order: Delivery.create with status 'pending' and
\* the first tracking update
CreateDelivery ==
    /\ left > 0
    /\ delivery = NoDelivery
    /\ delivery' = [status |-> "pending", courier |-> "none", updates |-> 1]
    /\ left' = left - 1
    /\ lastResp' = Resp("createDelivery", 201, "created")
    /\ UNCHANGED <<stock, orders, payments, proc, req, decs, payDecs, alerts,
                   concurrent, orderCap, cart, vt, rt>>

\* assignCourier: 404 without a delivery; otherwise courier and status
\* 'assigned' are set, a tracking update is pushed, and the document saved
AssignCourier(courierId) ==
    /\ left > 0
    /\ left' = left - 1
    /\ IF delivery = NoDelivery
       THEN /\ lastResp' = Resp("assignCourier", 404, "delivery not found")
            /\ UNCHANGED delivery
       ELSE /\ delivery' = [status |-> "assigned", courier |-> courierId,
                            updates |-> delivery.updates + 1]
            /\ lastResp' = Resp("assignCourier", 200, "assigned")
    /\ UNCHANGED <<stock, orders, payments, proc, req, decs, payDecs, alerts,
                   concurrent, orderCap, cart, vt, rt>>

\* updateDeliveryStatus: 404, the courier check (`delivery.courier.toString()`
\* throws for a delivery without courier: 500), the transition check, then
\* status and a tracking update are saved
UpdateDeliveryStatus(caller, status) ==
    /\ left > 0
    /\ left' = left - 1
    /\ IF delivery = NoDelivery
       THEN /\ lastResp' = Resp("updateDeliveryStatus", 404, "delivery not found")
            /\ UNCHANGED delivery
       ELSE IF delivery.courier = "none"
       THEN /\ lastResp' = Resp("updateDeliveryStatus", 500, "error")
            /\ UNCHANGED delivery
       ELSE IF delivery.courier # caller
       THEN /\ lastResp' = Resp("updateDeliveryStatus", 403, "unauthorized")
            /\ UNCHANGED delivery
       ELSE IF ~ValidTransition(delivery.status, status)
       THEN /\ lastResp' = Resp("updateDeliveryStatus", 400, "invalid transition")
            /\ UNCHANGED delivery
       ELSE /\ delivery' = [delivery EXCEPT !.status = status, !.updates = @ + 1]
            /\ lastResp' = Resp("updateDeliveryStatus", 200, "updated")
    /\ UNCHANGED <<stock, orders, payments, proc, req, decs, payDecs, alerts,
                   concurrent, orderCap, cart, vt, rt>>

(* ------------------- legacy payment controller ------------------------ *)
(* The earlier payment controller reconciles through document.save(), so   *)
(* the Payment and Order pre-save hooks run.                               *)

\* createPayment (legacy) up to the stock loop: Order.findById, 404 and 401
LegacyCreatePayment(r, oid, caller) ==
    /\ CanStart(r)
    /\ Len(payments) + Cardinality({s \in Slots : req[s].op = "createPayment"}) < MaxPayments
    /\ IF oid \notin OrderIds
       THEN Answer(r, Resp("createPayment", 404, "order not found"))
       ELSE IF orders[oid].user # caller /\ Role(caller) # "admin"
       THEN Answer(r, Resp("createPayment", 401, "unauthorized"))
       ELSE /\ Begin(r, [Idle EXCEPT !.op = "createPayment", !.pc = "cp_avail",
                                     !.caller = caller, !.oid = oid,
                                     !.items = orders[oid].items, !.idx = 1])
            /\ lastResp' = NoResp
    /\ UNCHANGED <<stock, orders, payments, proc, decs, payDecs, alerts, concurrent, orderCap, cart, vt, rt, delivery>>

\* verifyPayment (legacy) starts with verifyTransaction(reference)
LegacyVerifyPayment(r, pid) ==
    /\ CanStart(r)
    /\ Begin(r, [Idle EXCEPT !.op = "legacyVerify", !.pc = "lv_query", !.pid = pid])
    /\ lastResp' = NoResp
    /\ UNCHANGED <<stock, orders, payments, proc, decs, payDecs, alerts, concurrent, orderCap, cart, vt, rt, delivery>>

\* verifyPayment (legacy): the processor's answer; anything but success ends
\* the request
LegacyVerifyTransaction(r, fails) ==
    /\ req[r].pc = "lv_query"
    /\ IF fails \/ req[r].pid \notin PaymentIds
       THEN Respond(r, Resp("legacyVerify", 500, "error"))
       ELSE IF proc[req[r].pid] # "success"
       THEN Respond(r, Resp("legacyVerify", 400, "verification failed"))
       ELSE /\ req' = [req EXCEPT ![r] = [req[r] EXCEPT !.pc = "lv_find"]]
            /\ lastResp' = NoResp
    /\ UNCHANGED <<stock, orders, payments, proc, decs, payDecs, alerts, left, concurrent, orderCap, cart, vt, rt, delivery>>

\* webhook (legacy) up to Payment.findOne: the signature check and event filter
LegacyWebhook(r, body, signature) ==
    /\ CanStart(r)
    /\ Deliverable(body, signature)
    /\ IF ~SignatureValid(body, signature)
       THEN Answer(r, Resp("legacyWebhook", 400, "invalid signature"))
       ELSE IF body.event # "charge.success"
       THEN Answer(r, Resp("legacyWebhook", 200, "ignored"))
       ELSE /\ Begin(r, [Idle EXCEPT !.op = "legacyWebhook", !.pc = "lv_find",
                                     !.pid = body.ref])
            /\ lastResp' = NoResp
    /\ UNCHANGED <<stock, orders, payments, proc, decs, payDecs, alerts, concurrent, orderCap, cart, vt, rt, delivery>>

\* paymentSchema.pre('save'): the condition under which the order is touched
PaymentHookRuns(loadedStatus, status) == loadedStatus # status /\ status = "success"

\* Payment.findOne, then `payment.status = 'success'` and payment.save()
LegacyFindPayment(r) ==
    /\ req[r].pc = "lv_find"
    /\ IF req[r].pid \notin PaymentIds
       THEN IF req[r].op = "legacyVerify"
            THEN Respond(r, Resp("legacyVerify", 404, "payment not found"))
            ELSE Respond(r, Resp("legacyWebhook", 200, "no payment"))
       ELSE /\ req' = [req EXCEPT ![r] = [req[r] EXCEPT
                         !.lpay = payments[req[r].pid],
                         !.oid = payments[req[r].pid].order,
                         !.pc = IF PaymentHookRuns(payments[req[r].pid].status, "success")
                                THEN "lv_phook_read" ELSE "lv_pay_write"]]
            /\ lastResp' = NoResp
    /\ UNCHANGED <<stock, orders, payments, proc, decs, payDecs, alerts, left, concurrent, orderCap, cart, vt, rt, delivery>>

\* Payment hook: `await mongoose.model('Order').findById(this.order._id)`
LegacyPaymentHookRead(r) ==
    /\ req[r].pc = "lv_phook_read"
    /\ req' = [req EXCEPT ![r] = [req[r] EXCEPT !.pc = "lv_phook_save",
                                                 !.lstatus = orders[req[r].oid].status]]
    /\ lastResp' = NoResp
    /\ UNCHANGED <<stock, orders, payments, proc, decs, payDecs, alerts, left, concurrent, orderCap, cart, vt, rt, delivery>>

\* Payment hook: paymentInfo.status = 'success', orderStatus = 'processing',
\* order.save({ validateBeforeSave: false }); the Order hook sees a status
\* that is not 'Processing'
LegacyPaymentHookSave(r) ==
    /\ req[r].pc = "lv_phook_save"
    /\ ~HookDecrements(req[r].lstatus # "processing", "processing")
    /\ orders' = [orders EXCEPT ![req[r].oid] =
                    [@ EXCEPT !.status = IF req[r].lstatus # "processing"
                                         THEN "processing" ELSE @,
                              !.pay.status = "success"]]
    /\ req' = [req EXCEPT ![r] = [req[r] EXCEPT !.pc = "lv_pay_write", !.lstatus = "none"]]
    /\ lastResp' = NoResp
    /\ UNCHANGED <<stock, payments, proc, decs, payDecs, alerts, left, concurrent, orderCap, cart, vt, rt, delivery>>

\* payment.save(): the modified paths are written
LegacyPaymentWrite(r) ==
    /\ req[r].pc = "lv_pay_write"
    /\ payments' = [payments EXCEPT ![req[r].pid] =
                      [@ EXCEPT !.status = IF req[r].lpay.status # "success"
                                           THEN "success" ELSE @,
                                !.auth = TRUE]]
    /\ req' = [req EXCEPT ![r] = [req[r] EXCEPT !.pc = "lv_order_read"]]
    /\ lastResp' = NoResp
    /\ UNCHANGED <<stock, orders, proc, decs, payDecs, alerts, left, concurrent, orderCap, cart, vt, rt, delivery>>

\* `const order = await Order.findById(payment.order)`, the assignments of
\* paymentInfo and orderStatus = 'Processing', and the start of order.save()
LegacyOrderRead(r) ==
    /\ req[r].pc = "lv_order_read"
    /\ req' = [req EXCEPT ![r] = [req[r] EXCEPT
                 !.lstatus = orders[req[r].oid].status,
                 !.newStatus = "Processing",
                 !.idx = 1,
                 !.pc = IF HookDecrements(orders[req[r].oid].status # "Processing",
                                          "Processing")
                        THEN "hook_read" ELSE "order_save"]]
    /\ lastResp' = NoResp
    /\ UNCHANGED <<stock, orders, payments, proc, decs, payDecs, alerts, left, concurrent, orderCap, cart, vt, rt, delivery>>

\* order.save(): orderStatus (when modified) and paymentInfo are written
LegacyOrderSave(r) ==
    /\ req[r].pc = "order_save"
    /\ req[r].op \in LegacyOps
    /\ orders' = [orders EXCEPT ![req[r].oid] =
                    [@ EXCEPT !.status = IF req[r].lstatus # "Processing"
                                         THEN "Processing" ELSE @,
                              !.pay = [status |-> "success", ref |-> req[r].pid]]]
    /\ req' = [req EXCEPT ![r] = [req[r] EXCEPT !.pc = "lv_alert", !.idx = 1]]
    /\ lastResp' = NoResp
    /\ UNCHANGED <<stock, payments, proc, decs, payDecs, alerts, left, concurrent, orderCap, cart, vt, rt, delivery>>

\* "Alert manager if any product is out of stock": one item of the loop,
\* and the answer after the last one
LegacyAlert(r) ==
    /\ req[r].pc = "lv_alert"
    /\ LET items == orders[req[r].oid].items
           i == req[r].idx
       IN IF i > Len(items)
          THEN /\ Respond(r, Resp(req[r].op, 200, "processed"))
               /\ UNCHANGED alerts
          ELSE /\ alerts' = IF stock[items[i].product] <= 0 THEN alerts + 1 ELSE alerts
               /\ req' = [req EXCEPT ![r] = [req[r] EXCEPT !.idx = i + 1]]
               /\ lastResp' = NoResp
    /\ UNCHANGED <<stock, orders, payments, proc, decs, payDecs, left, concurrent, orderCap, cart, vt, rt, delivery>>

\* the alert loop when sendManagerAlert rejects (transporter.sendMail fails
\* and the error is rethrown): the handler's catch answers 500 after the
\* Payment and the Order were saved
LegacyAlertFails(r) ==
    /\ req[r].pc = "lv_alert"
    /\ LET items == orders[req[r].oid].items
           i == req[r].idx
       IN /\ i <= Len(items)
          /\ stock[items[i].product] <= 0
    /\ Respond(r, Resp(req[r].op, 500, "alert failed"))
    /\ UNCHANGED <<stock, orders, payments, proc, decs, payDecs, alerts, left,
                   concurrent, orderCap, cart, vt, rt, delivery>>

(* --------------------------- behaviours ------------------------------- *)
InitStore ==
    /\ stock = InitStock
    /\ orders = <<>>
    /\ payments = <<>>
    /\ proc = <<>>
    /\ req = [r \in Slots |-> Idle]
    /\ lastResp = NoResp
    /\ decs = <<>>
    /\ payDecs = <<>>
    /\ alerts = 0
    /\ cart = <<>>
    /\ vt = VtIdle
    /\ rt = RtIdle
    /\ delivery = NoDelivery

Init == InitStore /\ left = MaxRequests /\ concurrent = FALSE /\ orderCap = MaxOrders

InitConc ==
    InitStore /\ left = MaxConcRequests /\ concurrent = TRUE /\ orderCap = MaxOrders

OrderNext ==
    \E r \in Slots :
        \/ \E items \in ItemLists, complete \in BOOLEAN : CreateOrder(r, items, complete)
        \/ CreateOrderValidate(r)
        \/ HookRead(r)
        \/ HookWrite(r)
        \/ CreateOrderInsert(r)
        \/ \E oid \in 1..orderCap, caller \in {Owner, "adm"}, input \in StatusInputs :
               UpdateOrderStatus(r, oid, caller, input)
        \/ \E oid \in 1..orderCap, caller \in Callers : CancelOrder(r, oid, caller)
        \/ UpdateOrderStatusLoaded(r)
        \/ CancelOrderLoaded(r)
        \/ OrderSave(r)

WebhookBodies == [event : WebhookEvents, ref : 0..MaxPayments]

PaymentNext ==
    \/ \E r \in Slots :
        \/ \E oid \in 1..orderCap, caller \in Callers : CreatePayment(r, oid, caller)
        \/ CreatePaymentAvail(r)
        \/ \E ok \in BOOLEAN : CreatePaymentInit(r, ok)
        \/ CreatePaymentCreate(r)
        \/ \E pid \in 0..MaxPayments, wellFormed \in BOOLEAN : VerifyPayment(r, pid, wellFormed)
        \/ \E fails \in BOOLEAN : VerifyTransaction(r, fails)
        \/ \E w \in {"payment", "order"} : VerifySuccessWrite(r, w)
        \/ VerifyFailedWrite(r)
        \/ VerifyCatch(r)
        \/ \E body \in WebhookBodies :
               \E signature \in Signatures(body) : Webhook(r, body, signature)
        \/ VerifyPaymentLoaded(r)
        \/ \E configured \in BOOLEAN : WebhookCheck(r, configured)
        \/ WebhookOrder(r)
        \/ WebhookPaymentFails(r)
        \/ WebhookOrderFails(r)
    \/ \E pid \in 1..MaxPayments, s \in ProcStatuses : ProcessorAdvance(pid, s)

Next == OrderNext \/ PaymentNext

\* ordering and checkout only
ShopNext ==
    \E r \in Slots :
        \/ \E items \in ItemLists, complete \in BOOLEAN : CreateOrder(r, items, complete)
        \/ CreateOrderValidate(r)
        \/ HookRead(r)
        \/ HookWrite(r)
        \/ CreateOrderInsert(r)
        \/ \E line \in {LineA, LineB, LineX} : AddToCart(r, line)
        \/ \E shippingOk \in BOOLEAN : Checkout(r, shippingOk)
        \/ CheckoutLoaded(r)
        \/ CheckoutInsert(r)
        \/ CheckoutInc(r)
        \/ CheckoutClear(r)

InitShop ==
    InitStore /\ left = MaxShopRequests /\ concurrent \in BOOLEAN /\ orderCap = MaxShopOrders

LegacyNext ==
    \/ OrderNext
    \/ \E r \in Slots :
        \/ \E oid \in 1..orderCap, caller \in Callers : LegacyCreatePayment(r, oid, caller)
        \/ CreatePaymentAvail(r)
        \/ \E ok \in BOOLEAN : CreatePaymentInit(r, ok)
        \/ CreatePaymentCreate(r)
        \/ \E pid \in 0..MaxPayments : LegacyVerifyPayment(r, pid)
        \/ \E fails \in BOOLEAN : LegacyVerifyTransaction(r, fails)
        \/ \E body \in WebhookBodies :
               \E signature \in Signatures(body) : LegacyWebhook(r, body, signature)
        \/ LegacyFindPayment(r)
        \/ LegacyPaymentHookRead(r)
        \/ LegacyPaymentHookSave(r)
        \/ LegacyPaymentWrite(r)
        \/ LegacyOrderRead(r)
        \/ LegacyOrderSave(r)
        \/ LegacyAlert(r)
    \/ \E pid \in 1..MaxPayments, s \in ProcStatuses : ProcessorAdvance(pid, s)

Spec == Init /\ [][Next]_vars

SpecLegacy == InitConc /\ [][LegacyNext]_vars

SpecConc == InitConc /\ [][Next]_vars

SpecShop == InitShop /\ [][ShopNext]_vars

\* one order for half of a product's stock, brought to payment: created,
\* moved between statuses by an administrator, paid and verified
PaidNext ==
    \/ \E r \in Slots :
        \/ CreateOrder(r, <<LineC>>, TRUE)
        \/ CreateOrderValidate(r)
        \/ HookRead(r)
        \/ HookWrite(r)
        \/ CreateOrderInsert(r)
        \/ \E oid \in 1..orderCap, input \in {"Shipped", "Processing"} :
               UpdateOrderStatus(r, oid, "adm", input)
        \/ UpdateOrderStatusLoaded(r)
        \/ OrderSave(r)
        \/ \E oid \in 1..orderCap : CreatePayment(r, oid, Owner)
        \/ CreatePaymentAvail(r)
        \/ \E ok \in BOOLEAN : CreatePaymentInit(r, ok)
        \/ CreatePaymentCreate(r)
        \/ \E pid \in 1..MaxPayments : VerifyPayment(r, pid, TRUE)
        \/ VerifyPaymentLoaded(r)
        \/ \E fails \in BOOLEAN : VerifyTransaction(r, fails)
        \/ \E w \in {"payment", "order"} : VerifySuccessWrite(r, w)
        \/ VerifyFailedWrite(r)
        \/ VerifyCatch(r)
    \/ \E pid \in 1..MaxPayments, s \in ProcStatuses : ProcessorAdvance(pid, s)

InitPaid ==
    InitStore /\ left = MaxPaidRequests /\ concurrent = FALSE /\ orderCap = MaxOrders

SpecPaid == InitPaid /\ [][PaidNext]_vars

\* the legacy payment controller on one order for half of a product's stock
LegacyPaidNext ==
    \/ \E r \in Slots :
        \/ CreateOrder(r, <<LineC>>, TRUE)
        \/ CreateOrderValidate(r)
        \/ HookRead(r)
        \/ HookWrite(r)
        \/ CreateOrderInsert(r)
        \/ \E oid \in 1..orderCap : LegacyCreatePayment(r, oid, Owner)
        \/ CreatePaymentAvail(r)
        \/ \E ok \in BOOLEAN : CreatePaymentInit(r, ok)
        \/ CreatePaymentCreate(r)
        \/ \E pid \in 1..MaxPayments : LegacyVerifyPayment(r, pid)
        \/ \E fails \in BOOLEAN : LegacyVerifyTransaction(r, fails)
        \/ \E body \in WebhookBodies :
               \E signature \in Signatures(body) : LegacyWebhook(r, body, signature)
        \/ LegacyFindPayment(r)
        \/ LegacyPaymentHookRead(r)
        \/ LegacyPaymentHookSave(r)
        \/ LegacyPaymentWrite(r)
        \/ LegacyOrderRead(r)
        \/ LegacyOrderSave(r)
        \/ LegacyAlert(r)
        \/ LegacyAlertFails(r)
    \/ \E pid \in 1..MaxPayments, s \in ProcStatuses : ProcessorAdvance(pid, s)

SpecLegacyPaid == InitPaid /\ [][LegacyPaidNext]_vars

\* createPayment for an order, with every combination of arguments that
\* initializeTransaction can be given
InitTxNext ==
    \E r \in Slots :
        \/ CreateOrder(r, <<LineA>>, TRUE)
        \/ CreateOrderValidate(r)
        \/ HookRead(r)
        \/ HookWrite(r)
        \/ CreateOrderInsert(r)
        \/ \E oid \in 1..orderCap : CreatePayment(r, oid, Owner)
        \/ CreatePaymentAvail(r)
        \/ \E keySet \in BOOLEAN, email \in Emails, amount \in Amounts,
              callbackUrl \in CallbackUrls :
               InitializeTransaction(r, keySet, email, amount, callbackUrl)
        \/ \E ok \in BOOLEAN : InitializePosted(r, ok)
        \/ CreatePaymentCreate(r)
        \/ CreatePaymentCatch(r)

SpecInitTx == InitPaid /\ [][InitTxNext]_vars

\* one reference from initializeTransaction's answer to verifyTransaction's
\* request
RefNext ==
    \/ \E ref \in References : RefAssigned(ref)
    \/ RefStored
    \/ RefSent
    \/ RefNormalizedAgain

InitRef == InitStore /\ left = 0 /\ concurrent = FALSE /\ orderCap = MaxOrders

SpecRef == InitRef /\ [][RefNext]_vars

\* the delivery of one order: created, assigned, moved by couriers
DeliveryNext ==
    \/ CreateDelivery
    \/ \E courierId \in Couriers : AssignCourier(courierId)
    \/ \E caller \in Couriers, status \in DeliveryStatuses \cup {"none"} :
           UpdateDeliveryStatus(caller, status)

InitDelivery ==
    InitStore /\ left = MaxDeliveryRequests /\ concurrent = FALSE /\ orderCap = MaxOrders

SpecDelivery == InitDelivery /\ [][DeliveryNext]_vars

\* one verifyTransaction call against every sequence of processor outcomes
VtNext ==
    \/ VtCall
    \/ \E o \in VtOutcomes : VtQuery(o)
    \/ VtCatch
    \/ VtWait
    \/ VtReject

InitVt == InitStore /\ left = 0 /\ concurrent = FALSE /\ orderCap = MaxOrders

\* axios.get has `timeout: 10000` and every setTimeout fires: a call that
\* can take a step takes one
SpecVerifyTx == InitVt /\ [][VtNext]_vars /\ WF_vars(VtNext)

(* ----------------------------- properties ----------------------------- *)
\* the quantity a list of order lines asks of product p
RECURSIVE LineTotal(_, _)
LineTotal(items, p) ==
    IF items = <<>> THEN 0
    ELSE (IF Head(items).product = p THEN Head(items).quantity ELSE 0)
         + LineTotal(Tail(items), p)

\* C1: however often a success outcome is applied for a payment (legacy
\* verifyPayment calls and charge.success webhooks, one after another or
\* interleaved), the stock of each product is written down for that payment
\* at most once.
C1_DecrementedAtMostOncePerPayment ==
    \A pid \in PaymentIds : \A p \in Products : payDecs[pid][p] <= 1

\* C2: a verifyPayment or webhook that takes a Payment from pending to
\* success leaves every product's stock lower, by the quantity the order
\* asks of it, than it was when the request arrived.
C2_SuccessDecrementsStock ==
    [][\A r \in Slots :
          ( /\ req[r].pc \in {"vp_success", "wh_order"}
            /\ req[r].lpay.status = "pending"
            /\ req'[r].pc = "idle" )
          => \A p \in Products :
                stock'[p] = req[r].stock0[p] - LineTotal(orders[req[r].oid].items, p)]_vars

\* C3: once a Payment's status is success or failed, no step changes it.
C3_TerminalPaymentStatusIsFinal ==
    [][\A pid \in PaymentIds :
          payments[pid].status \in {"success", "failed"}
          => payments'[pid].status = payments[pid].status]_vars

\* C4: a verifyPayment that finds its Payment already success answers with
\* the cached result in that very step, changing no Payment, Order or stock;
\* it never gets to the point where the processor is asked.
C4_CachedVerifyIsInert ==
    /\ [](\A r \in Slots :
             (req[r].op = "verifyPayment" /\ req[r].pc \notin {"idle", "vp_find"})
             => req[r].lpay.status # "success")
    /\ [][\A r \in Slots :
             ( /\ req[r].pc = "vp_find"
               /\ req[r].pid \in PaymentIds
               /\ payments[req[r].pid].status = "success"
               /\ req'[r] # req[r] )
             => /\ req'[r] = Idle
                /\ lastResp' = Resp("verifyPayment", 200, "cached")
                /\ UNCHANGED <<stock, orders, payments, decs, payDecs, alerts>>]_vars

C4_Witness ==
    /\ lastResp = Resp("verifyPayment", 200, "cached")
    /\ \E pid \in PaymentIds : payments[pid].status = "success"

\* C5: a correctly signed charge.success webhook for a Payment that is
\* already success changes no Payment, no Order and no stock, and sends no
\* alert.
C5_WebhookOnSuccessIsNoOp ==
    [][\A r \in Slots :
          ( \/ /\ req[r].pc = "wh_check"
               /\ req[r].signature = Hmac(WebhookSecret, req[r].body)
               /\ req[r].body.event = "charge.success"
               /\ req[r].body.ref \in PaymentIds
               /\ payments[req[r].body.ref].status = "success"
            \/ /\ req[r].pc = "wh_order"
               /\ req[r].lpay.status = "success" )
          => UNCHANGED <<stock, orders, payments, alerts>>]_vars

\* C6: over an order's whole lifetime the stock of each of its products is
\* written down at most once on that order's behalf.
C6_OneDecrementPerOrder ==
    \A o \in OrderIds : \A p \in Products : decs[o][p] <= 1

\* C7: a webhook request whose signature is not the HMAC of its body under
\* the webhook secret is answered with an error, and no step of that
\* request changes a Payment, an Order or a stock.
C7_BadSignatureRejected ==
    [][\A r \in Slots :
          /\ ( /\ req'[r].op = "webhook"
               /\ req'[r] # req[r]
               /\ req'[r].signature # Hmac(WebhookSecret, req'[r].body) )
             => UNCHANGED dbvars
          /\ ( /\ req[r].op = "webhook"
               /\ req'[r] # req[r]
               /\ req[r].signature # Hmac(WebhookSecret, req[r].body) )
             => /\ req'[r] = Idle
                /\ lastResp'.op = "webhook"
                /\ lastResp'.code \in {400, 500}
                /\ UNCHANGED dbvars]_vars

C7_Witness ==
    /\ lastResp = Resp("webhook", 400, "invalid signature")
    /\ PaymentIds # {}

\* what a verifyPayment that observes success leaves of a payment and its order
VerifyLeavesPayment(payment) ==
    IF VerifyCached(payment) THEN payment ELSE PaymentSuccess(payment, VerifiedMeta(payment))

VerifyLeavesOrder(payment, order, pid) ==
    IF VerifyCached(payment) THEN order ELSE OrderPaid(order, pid)

\* C8: a correctly signed charge.success webhook leaves the Payment status,
\* the Order status and paymentInfo and the stock as a verifyPayment
\* observing success would have left them from the same state, the
\* already-success check included.
C8_WebhookMatchesVerify ==
    [][\A r \in Slots :
          (req[r].pc = "wh_order" /\ req'[r].pc = "idle")
          => /\ payments'[req[r].pid].status = VerifyLeavesPayment(req[r].lpay).status
             /\ orders'[req[r].oid] =
                   VerifyLeavesOrder(req[r].lpay, orders[req[r].oid], req[r].pid)
             /\ stock' = req[r].stock0]_vars

\* C9: for an existing order and its owner or an admin, cancelOrder is
\* refused exactly when the order is Delivered, and then the order stays as
\* it is; in every other status it goes on to save the order as Cancelled
\* and answers 200.
C9_CancelFailsIffDelivered ==
    [][\A r \in Slots :
          /\ ( /\ req[r].pc = "cancel_find"
               /\ req[r].oid \in OrderIds
               /\ (orders[req[r].oid].user = req[r].caller \/ Role(req[r].caller) = "admin")
               /\ req'[r] # req[r] )
             => IF orders[req[r].oid].status = "Delivered"
                THEN /\ req'[r] = Idle
                     /\ lastResp' = Resp("cancelOrder", 400, "cannot cancel delivered order")
                     /\ UNCHANGED dbvars
                ELSE /\ req'[r].pc = "order_save"
                     /\ req'[r].newStatus = "Cancelled"
          /\ ( /\ req[r].op = "cancelOrder"
               /\ req[r].pc = "order_save"
               /\ req'[r] # req[r] )
             => /\ req'[r] = Idle
                /\ lastResp' = Resp("cancelOrder", 200, "saved")
                /\ orders'[req[r].oid].status = "Cancelled"
                /\ UNCHANGED <<stock, payments>>]_vars

C9_Witness ==
    /\ lastResp = Resp("cancelOrder", 400, "cannot cancel delivered order")
    /\ \E o \in OrderIds : orders[o].status = "Delivered"

\* C10: no step takes an Order from Delivered to Cancelled.
C10_DeliveredNeverCancelled ==
    [][\A o \in OrderIds :
          orders[o].status = "Delivered" => orders'[o].status # "Cancelled"]_vars

\* the place of a status on the way Processing, Shipped, In Transit, Out for
\* Delivery, Delivered (0: not on it)
StatusRank(status) ==
    CASE status = "Processing" -> 1
      [] status = "Shipped" -> 2
      [] status = "In Transit" -> 3
      [] status = "Out for Delivery" -> 4
      [] status = "Delivered" -> 5
      [] OTHER -> 0

\* C11: no step changes the status of an Order that is Cancelled.
C11_CancelledIsTerminal ==
    [][\A o \in OrderIds :
          orders[o].status = "Cancelled" => orders'[o].status = "Cancelled"]_vars

\* C12: no step moves an Order that is not cancelled to a status earlier on
\* the way Processing, Shipped, In Transit, Out for Delivery, Delivered than
\* the one it has.
C12_StatusMovesForward ==
    [][\A o \in OrderIds :
          (StatusRank(orders[o].status) > 0 /\ StatusRank(orders'[o].status) > 0)
          => StatusRank(orders'[o].status) >= StatusRank(orders[o].status)]_vars

\* some line of the items names no product, or asks more than the stock st has
StockGuardFails(items, st) ==
    \E i \in 1..Len(items) :
        items[i].product \notin Products \/ st[items[i].product] < items[i].quantity

\* C13: createOrder writes nothing while it validates its items, and the
\* item whose product is missing or whose stock is below the quantity asked
\* ends the request with an error; with requests one at a time, a createOrder
\* whose items fail the guard when it arrives never creates an Order or
\* changes a stock. A checkout whose populated cart fails the guard is
\* answered with an error, creates no Order, changes no stock and leaves the
\* cart as it was.
C13_StockGuardAllOrNothing ==
    [][\A r \in Slots :
          /\ ( /\ req[r].pc = "co_validate"
               /\ req'[r] # req[r] )
             => /\ UNCHANGED <<stock, orders, cart, delivery>>
                /\ StockGuardFails(<<req[r].items[req[r].idx]>>, stock)
                     => /\ req'[r] = Idle
                        /\ lastResp'.code \in {400, 404}
          /\ ( /\ ~concurrent
               /\ req[r].op = "createOrder"
               /\ StockGuardFails(req[r].items, req[r].stock0)
               /\ req'[r] # req[r] )
             => /\ UNCHANGED <<stock, orders, cart, delivery>>
                /\ req'[r].pc \in {"idle", "co_validate"}
                /\ req'[r].pc = "idle" => lastResp'.code \in {400, 404}
          /\ ( /\ req[r].pc = "ck_load"
               /\ cart # <<>>
               /\ StockGuardFails(cart, stock)
               /\ req'[r] # req[r] )
             => /\ UNCHANGED <<stock, orders, cart, delivery>>
                /\ req'[r] = Idle
                /\ lastResp'.code \in {400, 500}]_vars

C13_Witness ==
    /\ lastResp = Resp("createOrder", 400, "insufficient stock")
    /\ orders # <<>>
    /\ \E p \in Products : stock[p] < 3

\* C14: while requests are served one at a time, no product's stock is
\* below zero.
C14_StockNeverNegativeSequentially ==
    concurrent = FALSE => \A p \in Products : stock[p] >= 0

\* no request is in flight
Quiet == \A r \in Slots : req[r].pc = "idle"

\* what the stock writes made for the first n orders take from product p,
\* each write taking the quantity the order asks of p
RECURSIVE TakenUpTo(_, _)
TakenUpTo(n, p) ==
    IF n = 0 THEN 0
    ELSE decs[n][p] * LineTotal(orders[n].items, p) + TakenUpTo(n - 1, p)

\* C15: once the requests have ended, every product's stock is its initial
\* stock less every decrement made for an order: no decrement is lost,
\* however the requests overlapped.
C15_NoLostDecrement ==
    Quiet => \A p \in Products : stock[p] = InitStock[p] - TakenUpTo(Len(orders), p)

\* C16: when verifyPayment observes the processor status failed or abandoned
\* for a payment it loaded as pending, its update sets the Payment's status
\* to failed and records the failure reason in the metadata, and it leaves
\* every Order and every Product's stock as they were
C16_FailedVerifyTouchesOnlyPayment ==
    [][\A r \in Slots :
         (/\ req[r].pc = "vp_failed"
          /\ req[r].out \in {"failed", "abandoned"}
          /\ req[r].lpay.status = "pending"
          /\ req'[r] # req[r])
         => /\ payments'[req[r].pid].status = "failed"
            /\ payments'[req[r].pid].meta.failure = req[r].out
            /\ orders' = orders
            /\ stock' = stock]_vars

\* an abandoned transaction has been verified: the Payment is failed with its
\* reason, the Order still awaits payment
C16_Witness ==
    /\ lastResp = Resp("verifyPayment", 400, "abandoned")
    /\ payments # <<>>
    /\ payments[1].status = "failed"
    /\ payments[1].meta.failure = "abandoned"
    /\ orders[payments[1].order].pay.status # "success"

\* every outcome logged so far is a pending transaction
AllPending(log) == \A i \in 1..Len(log) : log[i] = "pending"

\* the call is over: a result was returned or an error reached the caller
VtDone == vt.pc \in {"returned", "thrown"}

\* C17: as long as the processor answers pending to every query,
\* verifyTransaction makes at most 5 queries, waits baseDelay x attempt after
\* attempt 1..4, never returns a result, and fails only after the fifth query,
\* with the still-pending error; that error is handled by the catch of
\* attempt 5 alone, never by the catch of an enclosing attempt, and the call
\* does end in that failure
C17_AlwaysPendingFailsAfterFive ==
    /\ [](AllPending(vt.log) =>
            /\ vt.queries <= 5
            /\ vt.pc # "returned"
            /\ \A i \in 1..Len(vt.delays) : vt.delays[i] = BaseDelay * i
            /\ vt.pc = "catch" => vt.attempt = 5
            /\ vt.pc \in {"rejected", "thrown"}
                 => /\ vt.queries = 5
                    /\ Len(vt.delays) = 4
                    /\ vt.error = "still pending")
    /\ <>(~AllPending(vt.log) \/ vt.pc = "thrown")

\* five pending answers, and the failure has reached the caller
C17_Witness ==
    /\ vt.pc = "thrown"
    /\ vt.log = <<"pending", "pending", "pending", "pending", "pending">>
    /\ vt.error = "still pending"

\* C18: whatever the processor answers, verifyTransaction makes at most 5
\* queries, every retry runs with a larger attempt number than the attempt
\* that retries, and the call ends: with a result, or with an error that
\* reaches the caller
C18_TerminatesWithinFiveQueries ==
    /\ [](vt.queries <= 5)
    /\ [](vt.pc = "returned" => vt.result # "none")
    /\ [](vt.pc = "thrown" => vt.error # "none")
    /\ [][vt.pc \in {"wait_try", "wait_catch"} => vt'.attempt > vt.attempt]_vars
    /\ [][vt'.queries > vt.queries => vt'.queries = vt.attempt]_vars
    /\ <>VtDone

\* a result at the fifth query, after request errors and pending answers
C18_Witness ==
    /\ vt.pc = "returned"
    /\ vt.result = "success"
    /\ vt.log = <<"error", "pending", "error", "pending", "success">>

\* the outcome of the latest query
LastOutcome == IF vt.log = <<>> THEN "none" ELSE vt.log[Len(vt.log)]

\* C19: after a 404 or a malformed response verifyTransaction makes no
\* further query and the call fails with that error; after any other error
\* an attempt below 5 retries, and the error reaches the caller only from
\* attempt 5
C19_FatalErrorsFailAtOnce ==
    /\ [][(LastOutcome \in {"notFound", "malformed"})
            => vt'.queries = vt.queries]_vars
    /\ [](LastOutcome \in {"notFound", "malformed"}
            => /\ vt.pc \in {"catch", "rejected", "thrown"}
               /\ vt.error = IF LastOutcome = "notFound" THEN "not found"
                                                         ELSE "invalid response")
    /\ [][(vt.pc = "catch" /\ LastOutcome = "error" /\ vt.attempt < 5)
            => vt'.pc = "wait_catch"]_vars
    /\ []((vt.pc \in {"rejected", "thrown"} /\ LastOutcome \notin {"notFound", "malformed"})
            => vt.queries = 5)
    /\ (LastOutcome \in {"notFound", "malformed"}) ~> (vt.pc = "thrown")

\* a 404 at the second attempt, and the call has failed after two queries
C19_Witness ==
    /\ vt.pc = "thrown"
    /\ vt.log = <<"error", "notFound">>
    /\ vt.error = "not found"
    /\ vt.delays = <<BaseDelay>>

\* C20: every webhook request that carries the signature of its body is
\* answered 200, whatever happens while it is processed (no Payment matches
\* the reference, the Payment or the Order update fails)
C20_SignedWebhookAlwaysAcknowledged ==
    [][\A r \in Slots :
         (/\ req[r].op = "webhook"
          /\ req[r].pc # "idle"
          /\ req[r].signature = Hmac(WebhookSecret, req[r].body)
          /\ req'[r].pc = "idle")
         => lastResp'.code = 200]_vars

\* C21: a server whose webhook secret is set answers a correctly signed
\* webhook of any event other than charge.success with 200, and the request
\* changes no Payment, no Order and no stock
C21_OtherEventsIgnored ==
    [][\A r \in Slots :
         (/\ req[r].op = "webhook"
          /\ req[r].pc # "idle"
          /\ req[r].signature = Hmac(WebhookSecret, req[r].body)
          /\ req[r].body.event # "charge.success"
          /\ req'[r] # req[r])
         => /\ UNCHANGED <<payments, orders, stock>>
            /\ req'[r] = Idle
            /\ lastResp'.tag # "secret missing" => lastResp'.code = 200]_vars

\* a signed transfer.success naming a pending payment's reference has been
\* acknowledged, and the payment is still pending
C21_Witness ==
    /\ lastResp = Resp("webhook", 200, "ignored")
    /\ payments # <<>>
    /\ payments[1].status = "pending"
    /\ orders[payments[1].order].pay.status = "pending"

\* C22: when a verifyPayment or a webhook has reconciled a successful payment
\* and answers, sendManagerAlert has been called if a product on the order
\* has stock at or below zero
C22_OutOfStockAlerted ==
    [][\A r \in Slots :
         (/\ req[r].op \in {"verifyPayment", "webhook"}
          /\ req[r].pc # "idle"
          /\ req'[r].pc = "idle"
          /\ lastResp'.code = 200
          /\ lastResp'.tag \in {"verified", "processed"})
         => \A i \in 1..Len(orders'[req[r].oid].items) :
                stock'[orders'[req[r].oid].items[i].product] <= 0 => alerts' > 0]_vars

\* C23: once the legacy reconciliation of a successful payment has saved the
\* Payment and the Order, the request ends with a success answer, the
\* Payment is success and the Order is Processing and paid, whether or not
\* the alert for a depleted product could be sent
C23_AlertFailureKeepsSuccess ==
    [][\A r \in Slots :
         (/\ req[r].pc = "lv_alert"
          /\ req'[r].pc = "idle")
         => /\ lastResp'.code = 200
            /\ payments'[req[r].pid].status = "success"
            /\ orders'[req[r].oid].status = "Processing"
            /\ orders'[req[r].oid].pay.status = "success"]_vars

\* the arguments of the call lack the secret key, the email, a positive
\* amount or the callback URL
BadArgs(args) ==
    \/ ~args.keySet
    \/ args.email = ""
    \/ args.amount \in {<<>>, <<0>>, <<-5>>}
    \/ args.callbackUrl = ""

\* C24: a createPayment whose initializeTransaction call lacks the secret
\* key, the email, a positive amount or the callback URL never sends the
\* request to the processor and never reaches Payment.create: it ends with
\* an error answer and the Payment collection as it was
C24_InvalidInitializationSendsNothing ==
    /\ [](\A r \in Slots :
            /\ req[r].pc \in {"cp_post", "cp_create"} => ~BadArgs(req[r].args)
            /\ (req[r].pc = "cp_catch" /\ BadArgs(req[r].args)) => req[r].args.posts = 0)
    /\ [][\A r \in Slots :
            (req[r].pc = "cp_catch" /\ req'[r] # req[r])
            => /\ payments' = payments
               /\ req'[r] = Idle
               /\ lastResp' = Resp("createPayment", 500, "initialization failed")]_vars

\* a createPayment was refused for an amount of 0 with everything else in
\* place, and no Payment exists
C24_Witness ==
    /\ \E r \in Slots :
          /\ req[r].pc = "cp_catch"
          /\ req[r].args = [keySet |-> TRUE, email |-> "owner@shop.test", amount |-> <<0>>,
                            callbackUrl |-> "https://shop.test/api/payments/webhook",
                            posts |-> 0]
    /\ payments = <<>>

\* C25: when a checkout served on its own answers 200, every product's stock
\* is the stock the checkout found minus the quantity of its cart line
C25_CheckoutDecrementsOnce ==
    [][\A r \in Slots :
         (/\ ~concurrent
          /\ req[r].pc = "ck_clear"
          /\ lastResp' = Resp("checkout", 200, "checked out"))
         => \A p \in Products :
                stock'[p] = req[r].stock0[p] - LineTotal(req[r].items, p)]_vars

\* C26: while the only change of stock since the start is the decrement made
\* when the one order was created, createPayment's availability check does
\* not refuse that order for insufficient stock
C26_CreatedOrderStaysPayable ==
    [][\A r \in Slots :
         (/\ req[r].pc = "cp_avail"
          /\ Len(orders) = 1
          /\ req[r].oid = 1
          /\ \A p \in Products :
                 stock[p] = InitStock[p] - LineTotal(orders[1].items, p)
          /\ req'[r] # req[r])
         => lastResp' # Resp("createPayment", 400, "insufficient stock")]_vars

\* C27: whenever no request is in flight, an Order whose paymentInfo.status
\* is success refers to a Payment whose status is success
C27_OrderAndPaymentAgree ==
    Quiet => \A o \in OrderIds :
                 orders[o].pay.status = "success"
                 => /\ orders[o].pay.ref \in PaymentIds
                    /\ payments[orders[o].pay.ref].status = "success"

\* C28: when verifyTransaction throws inside verifyPayment, the request
\* writes nothing but the error annotation of the Payment's metadata: the
\* Payment's status and other fields, every Order and every stock stay as
\* they were, and the caller gets an error answer
C28_VerifyErrorOnlyAnnotates ==
    [][\A r \in Slots :
         (/\ req[r].op = "verifyPayment"
          /\ req[r].out = "throw"
          /\ req'[r] # req[r])
         => /\ orders' = orders
            /\ stock' = stock
            /\ req'[r] = Idle
            /\ lastResp'.code >= 400
            /\ payments' = [payments EXCEPT ![req[r].pid].meta.errors =
                                                payments'[req[r].pid].meta.errors]
            /\ payments'[req[r].pid].meta.errors > payments[req[r].pid].meta.errors]_vars

\* a verification of a pending payment has ended in an error: the payment is
\* still pending with one recorded attempt, its order still unpaid
C28_Witness ==
    /\ lastResp = Resp("verifyPayment", 500, "error")
    /\ payments # <<>>
    /\ payments[1].status = "pending"
    /\ payments[1].meta.errors = 1
    /\ orders[payments[1].order].pay.status = "pending"

\* C29: for every reference the processor assigns, the stored reference
\* starts with 'ref_', the reference verifyTransaction sends for it is the
\* assigned one, and normalizing the stored reference again changes nothing
C29_ReferenceRoundTrip ==
    /\ (rt.pc \in {"stored", "sent", "done"} /\ rt.assigned # <<>>)
         => StartsWith(rt.stored, <<"r", "e", "f", "_">>)
    /\ (rt.pc \in {"sent", "done"} /\ rt.assigned # <<>>) => rt.sent = rt.assigned
    /\ rt.pc = "done" => rt.again = rt.stored

\* C30: a delivery that is delivered or cancelled keeps its status through
\* every updateDeliveryStatus and assignCourier call, and a step that
\* answers as updateDeliveryStatus changes the status only along
\* assigned -> picked_up -> in_transit -> delivered and otherwise leaves the
\* delivery as it was
C30_DeliveryTerminalStatuses ==
    [][/\ delivery.status \in {"delivered", "cancelled"}
          => delivery'.status = delivery.status
       /\ lastResp'.op = "updateDeliveryStatus"
          => \/ delivery' = delivery
             \/ <<delivery.status, delivery'.status>> \in
                  { <<"assigned", "picked_up">>, <<"picked_up", "in_transit">>,
                    <<"in_transit", "delivered">> }]_vars

====
